---- MODULE Spec2Model ----
(***************************************************************************)
(* Bank-statement extraction pipeline of finance-advisor-agent:            *)
(*   app/services/pdf_extraction.py   BankStatementExtractor               *)
(*   app/api/routes/pdf_extraction.py extract_bank_statement and friends   *)
(*   app/schemas/bank_statement.py    TransactionCategoryEnum, schemas     *)
(*   alembic/versions/8ab099362d84    uniqueness of bank_categories.name   *)
(*                                                                         *)
(* Text is modelled as sequences of one-character strings so that          *)
(* upper(), replace(), strip() and slicing are computed, not assumed.      *)
(* Optional values are modelled as sets: {} is None, {v} is the value v.   *)
(***************************************************************************)
EXTENDS Integers, Sequences, FiniteSets, TLC

\* ------------------------------------------------------------------------
\* Bounds of the model
\* ------------------------------------------------------------------------
MaxCands == 3
MaxResolves == 2
TicksPerDay == 2

\* ------------------------------------------------------------------------
\* Optional values and Python truthiness
\* ------------------------------------------------------------------------
None == {}

Some(v) == {v}

Get(o) == CHOOSE v \in o : TRUE

\* bool(x) for an Optional[str]: None and "" are falsy
Truthy(o) == o # None /\ Get(o) # ""

Abs(n) == IF n < 0 THEN -n ELSE n

Min(a, b) == IF a < b THEN a ELSE b

\* ------------------------------------------------------------------------
\* str methods used by the service
\* ------------------------------------------------------------------------
LowerLetters ==
    <<"a","b","c","d","e","f","g","h","i","j","k","l","m",
      "n","o","p","q","r","s","t","u","v","w","x","y","z">>

UpperLetters ==
    <<"A","B","C","D","E","F","G","H","I","J","K","L","M",
      "N","O","P","Q","R","S","T","U","V","W","X","Y","Z">>

upper_char(c) ==
    IF \E i \in DOMAIN LowerLetters : LowerLetters[i] = c
    THEN UpperLetters[CHOOSE i \in DOMAIN LowerLetters : LowerLetters[i] = c]
    ELSE c

\* str.upper()
upper(s) == [i \in 1..Len(s) |-> upper_char(s[i])]

\* str.replace(old, new) for one-character old and new
replace(s, old, new) == [i \in 1..Len(s) |-> IF s[i] = old THEN new ELSE s[i]]

IsSpace(c) == c \in {" ", "\t", "\n"}

RECURSIVE lstrip(_)
lstrip(s) == IF s # <<>> /\ IsSpace(Head(s)) THEN lstrip(Tail(s)) ELSE s

RECURSIVE rstrip(_)
rstrip(s) ==
    IF s # <<>> /\ IsSpace(s[Len(s)]) THEN rstrip(SubSeq(s, 1, Len(s) - 1)) ELSE s

\* str.strip()
strip(s) == rstrip(lstrip(s))

\* s[:n]
slice_to(s, n) == SubSeq(s, 1, Min(n, Len(s)))

\* ------------------------------------------------------------------------
\* TransactionCategoryEnum (schemas/bank_statement.py) and the DB enum of
\* the same member names (models/bank_statement.py)
\* ------------------------------------------------------------------------
MemberNames ==
    <<"HOUSING", "TRANSPORTATION", "FOOD_DINING", "ENTERTAINMENT", "SHOPPING",
      "UTILITIES", "HEALTH_MEDICAL", "PERSONAL_CARE", "EDUCATION", "TRAVEL",
      "GIFTS_DONATIONS", "INCOME", "INVESTMENTS", "SAVINGS", "FEES_CHARGES",
      "ATM_CASH", "TRANSFERS", "INSURANCE", "TAXES", "OTHER">>

MemberNameChars ==
    <<<<"H","O","U","S","I","N","G">>,
      <<"T","R","A","N","S","P","O","R","T","A","T","I","O","N">>,
      <<"F","O","O","D","_","D","I","N","I","N","G">>,
      <<"E","N","T","E","R","T","A","I","N","M","E","N","T">>,
      <<"S","H","O","P","P","I","N","G">>,
      <<"U","T","I","L","I","T","I","E","S">>,
      <<"H","E","A","L","T","H","_","M","E","D","I","C","A","L">>,
      <<"P","E","R","S","O","N","A","L","_","C","A","R","E">>,
      <<"E","D","U","C","A","T","I","O","N">>,
      <<"T","R","A","V","E","L">>,
      <<"G","I","F","T","S","_","D","O","N","A","T","I","O","N","S">>,
      <<"I","N","C","O","M","E">>,
      <<"I","N","V","E","S","T","M","E","N","T","S">>,
      <<"S","A","V","I","N","G","S">>,
      <<"F","E","E","S","_","C","H","A","R","G","E","S">>,
      <<"A","T","M","_","C","A","S","H">>,
      <<"T","R","A","N","S","F","E","R","S">>,
      <<"I","N","S","U","R","A","N","C","E">>,
      <<"T","A","X","E","S">>,
      <<"O","T","H","E","R">>>>

MemberValues ==
    <<<<"H","o","u","s","i","n","g">>,
      <<"T","r","a","n","s","p","o","r","t","a","t","i","o","n">>,
      <<"F","o","o","d"," ","&"," ","D","i","n","i","n","g">>,
      <<"E","n","t","e","r","t","a","i","n","m","e","n","t">>,
      <<"S","h","o","p","p","i","n","g">>,
      <<"U","t","i","l","i","t","i","e","s">>,
      <<"H","e","a","l","t","h"," ","&"," ","M","e","d","i","c","a","l">>,
      <<"P","e","r","s","o","n","a","l"," ","C","a","r","e">>,
      <<"E","d","u","c","a","t","i","o","n">>,
      <<"T","r","a","v","e","l">>,
      <<"G","i","f","t","s"," ","&"," ","D","o","n","a","t","i","o","n","s">>,
      <<"I","n","c","o","m","e">>,
      <<"I","n","v","e","s","t","m","e","n","t","s">>,
      <<"S","a","v","i","n","g","s">>,
      <<"F","e","e","s"," ","&"," ","C","h","a","r","g","e","s">>,
      <<"A","T","M"," ","&"," ","C","a","s","h">>,
      <<"T","r","a","n","s","f","e","r","s">>,
      <<"I","n","s","u","r","a","n","c","e">>,
      <<"T","a","x","e","s">>,
      <<"O","t","h","e","r">>>>

Members == DOMAIN MemberNames

CategoryNames == {MemberNames[i] : i \in Members}

\* hasattr(TransactionCategoryEnum, name): the upper-cased name is a member
ByName(name) == {i \in Members : MemberNameChars[i] = name}

\* TransactionCategoryEnum(value): lookup by value, empty when ValueError
ByValue(value) == {i \in Members : MemberValues[i] = value}

\* line 207: category_name.upper().replace(' ', '_').replace('&', '_')
normalize_category_name(category_name) ==
    replace(replace(upper(category_name), " ", "_"), "&", "_")

\* lines 205-216 and 232-235: the DB enum member whose row is looked up
resolve_db_enum(category_name) ==
    LET n == normalize_category_name(category_name) IN
    IF ByName(n) # {} THEN MemberNames[CHOOSE i \in ByName(n) : TRUE]
    ELSE IF ByValue(n) # {} THEN MemberNames[CHOOSE i \in ByValue(n) : TRUE]
    ELSE "OTHER"

\* ------------------------------------------------------------------------
\* _remove_duplicate_transactions and the sort of extract_data
\* ------------------------------------------------------------------------
DescKeyLen == 50

\* date.strftime('%Y-%m-%d'): the datetime truncated to its day
DayOf(date) == date \div TicksPerDay

\* the key with the signed amount and the whole description
dedup_key_exact(t) == <<DayOf(t.date), t.amount, upper(strip(t.description))>>

\* lines 185-189
dedup_key(t) ==
    <<DayOf(t.date), Abs(t.amount), upper(strip(slice_to(t.description, DescKeyLen)))>>

\* the rule without its balance clause
replaces_existing_reference_only(t, existing) ==
    Truthy(t.reference_number) /\ ~Truthy(existing.reference_number)

\* lines 197-198
replaces_existing(t, existing) ==
    \/ (t.balance # None /\ existing.balance = None)
    \/ (Truthy(t.reference_number) /\ ~Truthy(existing.reference_number))

\* one iteration of the loop at lines 183-199; acc is the dict in insertion
\* order, a sequence of [key, tx]
\* a step that fills the gaps of the kept record from the colliding one
dedup_step_merging(acc, t) ==
    LET k == dedup_key(t)
        at == {i \in DOMAIN acc : acc[i].key = k}
    IN  IF at = {} THEN Append(acc, [key |-> k, tx |-> t])
        ELSE LET i == CHOOSE j \in at : TRUE
                 old == acc[i].tx
             IN [acc EXCEPT ![i].tx =
                    [old EXCEPT !.balance = IF old.balance = None THEN t.balance ELSE @,
                                !.reference_number =
                                    IF Truthy(old.reference_number) THEN @
                                    ELSE t.reference_number]]

dedup_step(acc, t) ==
    LET k == dedup_key(t)
        at == {i \in DOMAIN acc : acc[i].key = k}
    IN  IF at = {} THEN Append(acc, [key |-> k, tx |-> t])
        ELSE LET i == CHOOSE j \in at : TRUE IN
             IF replaces_existing(t, acc[i].tx)
             THEN [acc EXCEPT ![i].tx = t]
             ELSE acc

RECURSIVE dedup_fold(_, _)
dedup_fold(acc, txs) ==
    IF txs = <<>> THEN acc ELSE dedup_fold(dedup_step(acc, Head(txs)), Tail(txs))

\* lines 179-201: list(unique_transactions.values())
remove_duplicate_transactions(txs) ==
    LET d == dedup_fold(<<>>, txs) IN [i \in 1..Len(d) |-> d[i].tx]

\* insertion before the elements of equal date: ties come out reversed
RECURSIVE insert_by_date_unstable(_, _)
insert_by_date_unstable(s, x) ==
    IF s = <<>> THEN <<x>>
    ELSE IF s[Len(s)].date < x.date THEN Append(s, x)
    ELSE Append(insert_by_date_unstable(SubSeq(s, 1, Len(s) - 1), x), s[Len(s)])

\* insertion of x after the last element whose date is <= x.date (stable)
RECURSIVE insert_by_date(_, _)
insert_by_date(s, x) ==
    IF s = <<>> THEN <<x>>
    ELSE IF s[Len(s)].date <= x.date THEN Append(s, x)
    ELSE Append(insert_by_date(SubSeq(s, 1, Len(s) - 1), x), s[Len(s)])

RECURSIVE sort_fold(_, _)
sort_fold(acc, s) ==
    IF s = <<>> THEN acc ELSE sort_fold(insert_by_date(acc, Head(s)), Tail(s))

\* line 173: sorted(unique_transactions, key=lambda x: x.date)
sorted_by_date(s) == sort_fold(<<>>, s)

SeqToSet(s) == {s[i] : i \in DOMAIN s}


\* ------------------------------------------------------------------------
\* Candidate transactions (schemas.BankTransaction) used as inputs
\* ------------------------------------------------------------------------
StarbucksUpper == <<"S","T","A","R","B","U","C","K","S"," ","#","1","2","3">>

StarbucksMixed == <<"S","t","a","r","b","u","c","k","s"," ","#","1","2","3"," ">>

SalaryDesc == <<"S","a","l","a","r","y">>

FoodDiningLabel == MemberValues[3]

IncomeLabel == MemberValues[12]

Cand(date, description, amount, balance, reference_number, category, evidence) ==
    [date |-> date, description |-> description, amount |-> amount,
     balance |-> balance, transaction_type |-> None,
     reference_number |-> reference_number, category |-> category,
     is_recurring |-> FALSE, evidence |-> evidence]

\* the Scenario A pair: same key, one with balance, one without
TxBal == Cand(0, StarbucksUpper, -575, Some(1000), None, Some(FoodDiningLabel), "e1")

TxBare == Cand(0, StarbucksUpper, -575, None, None, Some(FoodDiningLabel), "e2")

\* same key, reference number but no balance
TxRef == Cand(1, StarbucksMixed, 575, None, Some("R1"), Some(FoodDiningLabel), "e3")

\* same key, both balance and reference number
TxFull == Cand(0, StarbucksUpper, -575, Some(1000), Some("R1"), None, "e4")

\* other keys
TxSalary == Cand(TicksPerDay, SalaryDesc, 3000, None, None, Some(IncomeLabel), "e5")

TxLate == Cand(2 * TicksPerDay, StarbucksUpper, -575, None, None, None, "e6")

\* descriptions that agree on their first DescKeyLen characters only
LongDesc(suffix) == [i \in 1..DescKeyLen |-> "x"] \o <<suffix>>

TxLongA == Cand(0, LongDesc("A"), -575, None, None, None, "e7")

TxLongB == Cand(0, LongDesc("B"), -575, None, None, None, "e8")

\* evidence: str = Field(...) accepts the empty string
TxNoEvidence == Cand(3 * TicksPerDay, SalaryDesc, 100, None, None, Some(IncomeLabel), "")

CandidatePool == {TxBal, TxBare, TxRef, TxFull, TxSalary, TxLate, TxLongA, TxLongB}

BoundedSeq(S, n) == UNION {[1..k -> S] : k \in 0..n}


\* ------------------------------------------------------------------------
\* State
\* ------------------------------------------------------------------------
VARIABLES
    d_pc,        \* deduplication run: "input", "deduplicated", "sorted"
    d_input,     \* all_transactions handed to _remove_duplicate_transactions
    d_unique,    \* unique_transactions
    d_sorted,    \* sorted_transactions
    c_calls,     \* number of _get_or_create_category calls made in the session
    c_table,     \* bank_categories rows seen by a single session
    c_label,     \* category_name argument of the last call
    c_result,    \* row returned by the last call, None before any call
    pc,          \* per request: position in extract_bank_statement
    req,         \* per request: the uploaded document and the caller
    metadata,    \* per request: statement_metadata returned by extract_data
    transactions,\* per request: transactions returned by extract_data
    idx,         \* per request: index of the loop at save_to_database line 280
    session,     \* per request: rows written in the open database transaction
    db,          \* committed rows of the relational store
    outcome,     \* per request: what the caller was told
    complete_statement, \* per request: the statement re-fetched with its rows
    response,    \* per request: body returned by extract_bank_statement
    view,        \* answer of the last GET /bank-statements/{statement_id}
    e_pc,        \* one extract_data call: position in the method
    e_doc,       \* the document handed to extract_data
    e_metadata,  \* result of the metadata call
    e_chunk,     \* per chunk: "queued", "in_flight", "done" or "cancelled"
    e_results,   \* per input position: the result batch() will return
    e_wait,      \* position whose result batch() is waiting for
    e_arrival,   \* chunk indices in the order their calls completed
    e_out        \* what extract_data returned or raised, None before

dedupVars == <<d_pc, d_input, d_unique, d_sorted>>

categoryVars == <<c_calls, c_table, c_label, c_result>>

readVars == <<complete_statement, response, view>>

mainVars == <<pc, req, metadata, transactions, idx, session, db, outcome, readVars>>

extractVars == <<e_pc, e_doc, e_metadata, e_chunk, e_results, e_wait, e_arrival, e_out>>

vars == <<dedupVars, categoryVars, mainVars, extractVars>>

\* ------------------------------------------------------------------------
\* bank_categories rows
\* ------------------------------------------------------------------------
CategoryRow(id, name) == [id |-> id, name |-> name]

\* rows inserted by the data migration 8ab099362d84 (lines 27-51)
SeededCategories == {CategoryRow(<<0, n>>, n) : n \in CategoryNames}

\* select(BankCategory).filter(BankCategory.name == db_enum) over visible rows
select_category(rows, name) == {c \in rows : c.name = name}

\* ------------------------------------------------------------------------
\* Deduplication of one candidate list (extract_data lines 171-173)
\* ------------------------------------------------------------------------
DedupIdle ==
    /\ d_pc = "input"
    /\ d_input = <<>>
    /\ d_unique = <<>>
    /\ d_sorted = <<>>

InitDedup ==
    /\ d_pc = "input"
    /\ d_input \in BoundedSeq(CandidatePool, MaxCands)
    /\ d_unique = <<>>
    /\ d_sorted = <<>>

RemoveDuplicates ==
    /\ d_pc = "input"
    /\ d_unique' = remove_duplicate_transactions(d_input)
    /\ d_pc' = "deduplicated"
    /\ UNCHANGED <<d_input, d_sorted, categoryVars, mainVars, extractVars>>

SortTransactions ==
    /\ d_pc = "deduplicated"
    /\ d_sorted' = sorted_by_date(d_unique)
    /\ d_pc' = "sorted"
    /\ UNCHANGED <<d_input, d_unique, categoryVars, mainVars, extractVars>>

NextDedup == RemoveDuplicates \/ SortTransactions

\* ------------------------------------------------------------------------
\* _get_or_create_category called sequentially in one session (lines 203-244)
\* ------------------------------------------------------------------------
UnknownVendorLabel ==
    <<"U","n","k","n","o","w","n"," ","V","e","n","d","o","r"," ","T","y","p","e">>

FoodDiningLower == <<"f","o","o","d","_","d","i","n","i","n","g">>

ResolveLabels ==
    {MemberValues[i] : i \in Members} \cup {MemberNameChars[i] : i \in Members}
        \cup {UnknownVendorLabel, FoodDiningLower, <<>>}

CategoryIdle ==
    /\ c_calls = 0
    /\ c_table = {}
    /\ c_label = <<>>
    /\ c_result = None

InitCategory ==
    /\ c_calls = 0
    /\ c_table \in {{}, SeededCategories}
    /\ c_label = <<>>
    /\ c_result = None

GetOrCreateCategory(label) ==
    /\ c_calls < MaxResolves
    /\ LET name == resolve_db_enum(label)
           found == select_category(c_table, name)
       IN  /\ Cardinality(found) <= 1
           /\ IF found # {}
              THEN /\ c_result' = Some(CHOOSE c \in found : TRUE)
                   /\ c_table' = c_table
              ELSE /\ c_result' = Some(CategoryRow(<<c_calls + 1, name>>, name))
                   /\ c_table' = c_table \cup {CategoryRow(<<c_calls + 1, name>>, name)}
    /\ c_label' = label
    /\ c_calls' = c_calls + 1
    /\ UNCHANGED <<dedupVars, mainVars, extractVars>>

NextCategory == \E label \in ResolveLabels : GetOrCreateCategory(label)

\* ------------------------------------------------------------------------
\* Documents: what load_pdf, the metadata call and the chunk calls return
\* ------------------------------------------------------------------------
StatementMetadata(account_number, account_holder, bank_name, statement_period, opening_balance, closing_balance) ==
    [account_number |-> account_number, account_holder |-> account_holder,
     bank_name |-> bank_name, statement_period |-> statement_period,
     opening_balance |-> opening_balance, closing_balance |-> closing_balance]

\* schemas.StatementMetadata with every Optional field left at its default
MetaAllNull == StatementMetadata(None, None, None, None, None, None)

MetaFilled ==
    StatementMetadata(Some("12345678"), Some("J DOE"), Some("ACME BANK"),
                      Some("March 2024"), Some(1005), Some(3430))

\* a chunk call raises, returns None (no structured record) or a TransactionList
ChunkRaises == [kind |-> "raise", txs |-> <<>>]

ChunkNone == [kind |-> "none", txs |-> <<>>]

ChunkOk(txs) == [kind |-> "ok", txs |-> txs]

\* a call the provider never answers
ChunkHangs == [kind |-> "hang", txs |-> <<>>]

\* meta: "raise" (the call raises), "none" (returns None) or a record
Document(readable, meta, chunks) ==
    [readable |-> readable, meta |-> meta, chunks |-> chunks]

MetaReturns(m) == [kind |-> "ok", value |-> Some(m)]

MetaReturnsNone == [kind |-> "ok", value |-> None]

MetaRaises == [kind |-> "raise", value |-> None]

DocNames ==
    {"unreadable", "meta_raise", "meta_none", "scenario_c", "empty",
     "all_none", "all_raise", "overlap", "single", "no_evidence"}

Doc(name) ==
    CASE name = "unreadable" -> Document(FALSE, MetaReturns(MetaFilled), <<>>)
      [] name = "meta_raise" ->
            Document(TRUE, MetaRaises, <<ChunkOk(<<TxSalary>>)>>)
      [] name = "meta_none" ->
            Document(TRUE, MetaReturnsNone, <<ChunkOk(<<TxSalary>>)>>)
      [] name = "scenario_c" ->
            Document(TRUE, MetaReturns(MetaFilled),
                     <<ChunkOk(<<TxBal>>), ChunkOk(<<TxBare>>), ChunkRaises,
                       ChunkOk(<<TxSalary>>), ChunkOk(<<TxLate>>)>>)
      [] name = "empty" -> Document(TRUE, MetaReturns(MetaAllNull), <<>>)
      [] name = "all_none" ->
            Document(TRUE, MetaReturns(MetaFilled), <<ChunkNone, ChunkOk(<<>>)>>)
      [] name = "all_raise" ->
            Document(TRUE, MetaReturns(MetaFilled), <<ChunkRaises, ChunkRaises>>)
      [] name = "overlap" ->
            Document(TRUE, MetaReturns(MetaFilled),
                     <<ChunkOk(<<TxBal, TxSalary>>), ChunkOk(<<TxBare, TxLate>>)>>)
      [] name = "single" ->
            Document(TRUE, MetaReturns(MetaAllNull), <<ChunkOk(<<TxSalary, TxFull>>)>>)
      [] name = "no_evidence" ->
            Document(TRUE, MetaReturns(MetaAllNull), <<ChunkOk(<<TxNoEvidence>>)>>)
      [] name = "expenses" ->
            Document(TRUE, MetaReturns(MetaAllNull), <<ChunkOk(<<TxLate>>)>>)
      [] name = "deficit" ->
            Document(TRUE, MetaReturns(MetaAllNull),
                     <<ChunkOk(<<TxNoEvidence, TxLate>>)>>)
      [] name = "ties" ->
            Document(TRUE, MetaReturns(MetaFilled),
                     <<ChunkOk(<<TxLongA>>), ChunkOk(<<TxBal>>), ChunkNone,
                       ChunkOk(<<TxSalary, TxBare>>)>>)
      [] name = "hang" ->
            Document(TRUE, MetaReturns(MetaFilled),
                     <<ChunkOk(<<TxSalary>>), ChunkHangs, ChunkOk(<<TxLate>>)>>)

\* ------------------------------------------------------------------------
\* extract_data (lines 137-177)
\* ------------------------------------------------------------------------
\* Runnable.batch without return_exceptions: the first exception of any
\* input is raised to the caller, otherwise the results in input order
batch_raises(chunks) == \E i \in DOMAIN chunks : chunks[i].kind = "raise"

\* lines 162-167: results with a transactions attribute are concatenated
RECURSIVE combine_transactions(_)
combine_transactions(results) ==
    IF results = <<>> THEN <<>>
    ELSE (IF Head(results).kind = "ok" THEN Head(results).txs ELSE <<>>)
            \o combine_transactions(Tail(results))

Raised(kind) == [raised |-> kind, metadata |-> None, transactions |-> <<>>]

\* extract_data with a load_pdf that swallows its error and returns no text
extract_data_swallowing(doc) ==
    IF doc.meta.kind = "raise" THEN Raised("MetadataCallFailed")
    ELSE IF batch_raises(doc.chunks) THEN Raised("ChunkCallFailed")
    ELSE [raised |-> "",
          metadata |-> doc.meta.value,
          transactions |->
              sorted_by_date(remove_duplicate_transactions(
                  combine_transactions(doc.chunks)))]

extract_data(doc) ==
    IF ~doc.readable THEN Raised("DocumentUnreadable")
    ELSE IF doc.meta.kind = "raise" THEN Raised("MetadataCallFailed")
    ELSE IF batch_raises(doc.chunks) THEN Raised("ChunkCallFailed")
    ELSE [raised |-> "",
          metadata |-> doc.meta.value,
          transactions |->
              sorted_by_date(remove_duplicate_transactions(
                  combine_transactions(doc.chunks)))]

\* ------------------------------------------------------------------------
\* The relational store and the per-request session
\* ------------------------------------------------------------------------
\* ------------------------------------------------------------------------
\* One extract_data call, chunk call by chunk call (lines 137-177)
\* ------------------------------------------------------------------------
\* {"max_concurrency": 3} at line 158: size of the executor batch() runs on
max_concurrency == 3

ExtractDocNames ==
    {"unreadable", "meta_raise", "meta_none", "empty", "scenario_c", "ties", "hang"}

NotYet == [kind |-> "pending", txs |-> <<>>]

InFlight == {i \in DOMAIN e_chunk : e_chunk[i] = "in_flight"}

Queued == {i \in DOMAIN e_chunk : e_chunk[i] = "queued"}

\* an executor without a size: every queued call may start
may_start_unbounded(in_flight) == TRUE

\* a worker of the executor is free
may_start(in_flight) == Cardinality(in_flight) < max_concurrency

\* results kept in the order the calls complete
store_result_on_arrival(results, i, res) ==
    LET k == CHOOSE j \in DOMAIN results :
                 /\ results[j].kind = "pending"
                 /\ \A l \in DOMAIN results : results[l].kind = "pending" => j <= l
    IN [results EXCEPT ![k] = res]

\* batch() returns the results in the order of its inputs
store_result(results, i, res) == [results EXCEPT ![i] = res]

ExtractIdle ==
    /\ e_pc = "idle"
    /\ e_doc = "empty"
    /\ e_metadata = None
    /\ e_chunk = <<>>
    /\ e_results = <<>>
    /\ e_wait = 0
    /\ e_arrival = <<>>
    /\ e_out = None

InitExtract ==
    /\ e_pc = "load"
    /\ e_doc \in ExtractDocNames
    /\ e_metadata = None
    /\ e_chunk = <<>>
    /\ e_results = <<>>
    /\ e_wait = 0
    /\ e_arrival = <<>>
    /\ e_out = None

ExtractRaises(kind) ==
    /\ e_pc' = "raised"
    /\ e_out' = Some(Raised(kind))

\* line 142: load_pdf raises when the file cannot be read
LoadPdf ==
    /\ e_pc = "load"
    /\ IF Doc(e_doc).readable
       THEN e_pc' = "metadata" /\ e_out' = e_out
       ELSE ExtractRaises("DocumentUnreadable")
    /\ UNCHANGED <<e_doc, e_metadata, e_chunk, e_results, e_wait, e_arrival>>
    /\ UNCHANGED <<dedupVars, categoryVars, mainVars>>

\* lines 145-147: the metadata call, outside any try
ExtractMetadata ==
    /\ e_pc = "metadata"
    /\ IF Doc(e_doc).meta.kind = "raise"
       THEN ExtractRaises("MetadataCallFailed") /\ e_metadata' = e_metadata
       ELSE /\ e_metadata' = Doc(e_doc).meta.value
            /\ e_pc' = "split"
            /\ e_out' = e_out
    /\ UNCHANGED <<e_doc, e_chunk, e_results, e_wait, e_arrival>>
    /\ UNCHANGED <<dedupVars, categoryVars, mainVars>>

\* lines 151, 156-157: the chunks are split and all handed to batch()
SplitText ==
    /\ e_pc = "split"
    /\ e_chunk' = [i \in DOMAIN Doc(e_doc).chunks |-> "queued"]
    /\ e_results' = [i \in DOMAIN Doc(e_doc).chunks |-> NotYet]
    /\ e_wait' = 1
    /\ e_pc' = "batch"
    /\ UNCHANGED <<e_doc, e_metadata, e_arrival, e_out>>
    /\ UNCHANGED <<dedupVars, categoryVars, mainVars>>

\* a free worker takes the oldest queued call
StartChunk ==
    /\ e_pc \in {"batch", "draining"}
    /\ Queued # {}
    /\ may_start(InFlight)
    /\ LET i == CHOOSE j \in Queued : \A l \in Queued : j <= l
       IN e_chunk' = [e_chunk EXCEPT ![i] = "in_flight"]
    /\ UNCHANGED <<e_pc, e_doc, e_metadata, e_results, e_wait, e_arrival, e_out>>
    /\ UNCHANGED <<dedupVars, categoryVars, mainVars>>

\* the provider answers call i (a result, None or an error); a call that is
\* never answered has no timeout to end it (line 45 sets none)
FinishChunk(i) ==
    /\ e_pc \in {"batch", "draining"}
    /\ i \in InFlight
    /\ Doc(e_doc).chunks[i].kind # "hang"
    /\ e_chunk' = [e_chunk EXCEPT ![i] = "done"]
    /\ e_results' = store_result(e_results, i, Doc(e_doc).chunks[i])
    /\ e_arrival' = Append(e_arrival, i)
    /\ UNCHANGED <<e_pc, e_doc, e_metadata, e_wait, e_out>>
    /\ UNCHANGED <<dedupVars, categoryVars, mainVars>>

\* batch() collects the results in input order; the first exception it meets
\* cancels the calls not yet started
TakeResult ==
    /\ e_pc = "batch"
    /\ e_wait \in DOMAIN e_results
    /\ e_results[e_wait].kind # "pending"
    /\ IF e_results[e_wait].kind = "raise"
       THEN /\ e_pc' = "draining"
            /\ e_chunk' = [i \in DOMAIN e_chunk |->
                              IF e_chunk[i] = "queued" THEN "cancelled" ELSE e_chunk[i]]
            /\ e_wait' = e_wait
       ELSE /\ e_wait' = e_wait + 1
            /\ UNCHANGED <<e_pc, e_chunk>>
    /\ UNCHANGED <<e_doc, e_metadata, e_results, e_arrival, e_out>>
    /\ UNCHANGED <<dedupVars, categoryVars, mainVars>>

\* the executor is left once the running calls have ended, then the
\* exception reaches the caller of extract_data
BatchRaises ==
    /\ e_pc = "draining"
    /\ InFlight = {}
    /\ ExtractRaises("ChunkCallFailed")
    /\ UNCHANGED <<e_doc, e_metadata, e_chunk, e_results, e_wait, e_arrival>>
    /\ UNCHANGED <<dedupVars, categoryVars, mainVars>>

\* lines 161-177: all results are in; combine, deduplicate, sort, return
CombineDedupSort ==
    /\ e_pc = "batch"
    /\ e_wait = Len(e_results) + 1
    /\ e_pc' = "returned"
    /\ \E all_transactions \in {combine_transactions(e_results)} :
       \E unique_transactions \in {remove_duplicate_transactions(all_transactions)} :
       \E sorted_transactions \in {sorted_by_date(unique_transactions)} :
           e_out' = Some([raised |-> "", metadata |-> e_metadata,
                          transactions |-> sorted_transactions])
    /\ UNCHANGED <<e_doc, e_metadata, e_chunk, e_results, e_wait, e_arrival>>
    /\ UNCHANGED <<dedupVars, categoryVars, mainVars>>

NextExtract ==
    \/ LoadPdf
    \/ ExtractMetadata
    \/ SplitText
    \/ StartChunk
    \/ \E i \in DOMAIN e_chunk : FinishChunk(i)
    \/ TakeResult
    \/ BatchRaises
    \/ CombineDedupSort

Runs == {1, 2}

Users == {"u1", "u2"}

\* the accounts table: one account per user; no route of the upload flow
\* writes to it.  "a9" is an id that names no account.
Accounts == {[id |-> "a1", user_id |-> "u1"], [id |-> "a2", user_id |-> "u2"]}

AccountIds == {"a1", "a2", "a9"}

Store(stmts, metas, txs, cats) ==
    [stmts |-> stmts, metas |-> metas, txs |-> txs, cats |-> cats]

EmptyStore == Store({}, {}, {}, {})

\* a commit that leaves out transactions the store already holds for
\* another statement (same date, amount and description)
merge_skipping_known(store, sess) ==
    Store(store.stmts \cup sess.stmts, store.metas \cup sess.metas,
          store.txs \cup {t \in sess.txs :
                             ~\E k \in store.txs :
                                 /\ k.date = t.date /\ k.amount = t.amount
                                 /\ k.description = t.description},
          store.cats \cup sess.cats)

\* what a commit makes durable
merge(store, sess) ==
    Store(store.stmts \cup sess.stmts, store.metas \cup sess.metas,
          store.txs \cup sess.txs, store.cats \cup sess.cats)

\* the store if the except clause let the pending rows through
after_rollback_keeps_rows(store, sess) == merge(store, sess)

\* the store after `await db.rollback()` (line 308): pending rows are dropped
after_rollback(store, sess) == store

\* bank_categories without the unique constraint: no insert ever conflicts
uq_absent(rows, name) == FALSE

\* the unique constraint uq_bank_categories_name: a row of that name exists
uq_bank_categories_name(rows, name) == \E c \in rows : c.name = name

\* rows carry the columns that decide the behaviour; title, description and
\* the timestamps are passed through unread and are left out.  Ids stand for
\* uuid4 values: distinct per created row.
\* The constructor call at lines 286-298 passes no user_id, so the column of
\* a written transaction row holds no value.
StatementRow(r) == [id |-> r, user_id |-> req[r].user, is_active |-> TRUE]

MetadataRow(r, m) == [id |-> r, statement_id |-> r, fields |-> m]

TransactionRow(r, i, t, category_id) ==
    [id |-> <<r, i>>, statement_id |-> r, account_id |-> req[r].account,
     user_id |-> None,
     date |-> t.date, description |-> t.description, amount |-> t.amount,
     balance |-> t.balance, transaction_type |-> t.transaction_type,
     category_id |-> category_id, reference_number |-> t.reference_number,
     is_recurring |-> t.is_recurring, evidence |-> t.evidence]

Running == [state |-> "running", status |-> 0, kind |-> "", stage |-> ""]

Failed(status, kind, stage) ==
    [state |-> "failed", status |-> status, kind |-> kind, stage |-> stage]

Completed == [state |-> "completed", status |-> 200, kind |-> "", stage |-> ""]

\* ------------------------------------------------------------------------
\* extract_bank_statement (routes lines 104-196)
\* ------------------------------------------------------------------------
\* ------------------------------------------------------------------------
\* Reading a statement back (routes lines 38-78, 175-191, 443-465)
\* ------------------------------------------------------------------------
\* rows of a SELECT that has no ORDER BY: every enumeration of the rows may
\* come back
select_unordered(rows) ==
    {o \in [1..Cardinality(rows) -> rows] : \A x \in rows : \E i \in DOMAIN o : o[i] = x}

\* selectinload(BankStatement.bank_transactions): the relationship has no
\* order_by and the query none either
load_bank_transactions(store, sid) ==
    select_unordered({t \in store.txs : t.statement_id = sid})

\* select(BankStatement) with both selectinload options
load_statement(s, store, o) ==
    [statement |-> s,
     statement_metadata |-> {m \in store.metas : m.statement_id = s.id},
     bank_transactions |-> o,
     categories |-> store.cats]

\* t.category.name.value
value_of(name) == MemberValues[CHOOSE i \in Members : MemberNames[i] = name]

category_value(t, cats) ==
    IF t.category_id = None THEN None
    ELSE Some(value_of((CHOOSE c \in cats : c.id = Get(t.category_id)).name))

\* lines 42-55: one schema record per row, in the order of the collection
transaction_schema(t, cats) ==
    [date |-> t.date, description |-> t.description, amount |-> t.amount,
     balance |-> t.balance, transaction_type |-> t.transaction_type,
     category |-> category_value(t, cats),
     reference_number |-> t.reference_number, is_recurring |-> t.is_recurring,
     evidence |-> t.evidence, account_id |-> t.account_id]

\* lines 38-78
convert_to_schema(loaded) ==
    [id |-> loaded.statement.id, user_id |-> loaded.statement.user_id,
     is_active |-> loaded.statement.is_active,
     metadata |-> (CHOOSE m \in loaded.statement_metadata : TRUE).fields,
     transactions |->
        [i \in DOMAIN loaded.bank_transactions |->
            transaction_schema(loaded.bank_transactions[i], loaded.categories)]]

NoView == [status |-> 0, body |-> None]

NotFound == [status |-> 404, body |-> None]

Ok(body) == [status |-> 200, body |-> Some(body)]

MainIdle ==
    /\ pc = [r \in Runs |-> "received"]
    /\ req = [r \in Runs |-> [doc |-> "empty", pdf |-> TRUE, user |-> "u1", account |-> None]]
    /\ metadata = [r \in Runs |-> None]
    /\ transactions = [r \in Runs |-> <<>>]
    /\ idx = [r \in Runs |-> 0]
    /\ session = [r \in Runs |-> EmptyStore]
    /\ db = EmptyStore
    /\ outcome = [r \in Runs |-> Running]
    /\ complete_statement = [r \in Runs |-> None]
    /\ response = [r \in Runs |-> None]
    /\ view = NoView

InitMainWith(docs, accounts) ==
    /\ pc = [r \in Runs |-> "received"]
    /\ req \in [Runs -> [doc : docs, pdf : BOOLEAN, user : Users, account : accounts]]
    /\ metadata = [r \in Runs |-> None]
    /\ transactions = [r \in Runs |-> <<>>]
    /\ idx = [r \in Runs |-> 0]
    /\ session = [r \in Runs |-> EmptyStore]
    /\ db \in {EmptyStore, Store({}, {}, {}, SeededCategories)}
    /\ outcome = [r \in Runs |-> Running]
    /\ complete_statement = [r \in Runs |-> None]
    /\ response = [r \in Runs |-> None]
    /\ view = NoView

\* uploads without a target account (the form field account_id left out)
InitMain == InitMainWith(DocNames, {None})

\* an except clause that starts the extraction again instead of answering
RouteFailsAndRetries(r, kind) ==
    /\ pc' = [pc EXCEPT ![r] = "extract"]
    /\ outcome' = [outcome EXCEPT ![r] = Failed(500, kind, pc[r])]
    /\ session' = [session EXCEPT ![r] = EmptyStore]

\* the except clause of the route (lines 193-196) answers 500 whatever was
\* raised inside the try block; get_db then rolls the session back
RouteFails(r, kind) ==
    /\ pc' = [pc EXCEPT ![r] = "failed"]
    /\ outcome' = [outcome EXCEPT ![r] = Failed(500, kind, pc[r])]
    /\ session' = [session EXCEPT ![r] = EmptyStore]

\* lines 117-119: rejected before the try block
ValidateRequest(r) ==
    /\ pc[r] = "received"
    /\ IF ~req[r].pdf
       THEN /\ pc' = [pc EXCEPT ![r] = "failed"]
            /\ outcome' = [outcome EXCEPT ![r] = Failed(400, "NotPdf", "received")]
       ELSE /\ pc' = [pc EXCEPT ![r] = IF req[r].account = None
                                       THEN "extract" ELSE "account"]
            /\ outcome' = outcome
    /\ UNCHANGED <<req, metadata, transactions, idx, session, db>>
    /\ UNCHANGED <<dedupVars, categoryVars, extractVars>>
    /\ UNCHANGED readVars

\* an account lookup that does not look at the owner
select_account_any_owner(rows, account_id, u) == {a \in rows : a.id = account_id}

\* lines 124-127: Account.id == account_id and Account.user_id == current_user.id
select_account(rows, account_id, u) ==
    {a \in rows : a.id = account_id /\ a.user_id = u}

\* lines 121-131, reached only `if account_id:`; the HTTPException(404) is
\* raised before the try block, and so is an error of the select
CheckAccount(r) ==
    /\ pc[r] = "account"
    /\ \/ IF select_account(Accounts, Get(req[r].account), req[r].user) = {}
          THEN /\ pc' = [pc EXCEPT ![r] = "failed"]
               /\ outcome' = [outcome EXCEPT ![r] = Failed(404, "AccountNotFound", "account")]
          ELSE /\ pc' = [pc EXCEPT ![r] = "extract"]
               /\ outcome' = outcome
       \/ /\ pc' = [pc EXCEPT ![r] = "failed"]
          /\ outcome' = [outcome EXCEPT ![r] = Failed(500, "DatabaseError", "account")]
    /\ UNCHANGED <<req, metadata, transactions, idx, session, db>>
    /\ UNCHANGED <<dedupVars, categoryVars, extractVars>>
    /\ UNCHANGED readVars

\* line 149: extractor.extract_data(temp_file_path)
ExtractData(r) ==
    /\ pc[r] = "extract"
    /\ LET res == extract_data(Doc(req[r].doc)) IN
       IF res.raised # ""
       THEN /\ RouteFails(r, res.raised)
            /\ UNCHANGED <<metadata, transactions>>
       ELSE /\ metadata' = [metadata EXCEPT ![r] = res.metadata]
            /\ transactions' = [transactions EXCEPT ![r] = res.transactions]
            /\ pc' = [pc EXCEPT ![r] = "check"]
            /\ UNCHANGED <<outcome, session>>
    /\ UNCHANGED <<req, idx, db>>
    /\ UNCHANGED <<dedupVars, categoryVars, extractVars>>
    /\ UNCHANGED readVars

\* lines 156-158: the HTTPException(400) is raised inside the try block and
\* caught by the except clause at line 193
CheckTransactions(r) ==
    /\ pc[r] = "check"
    /\ IF transactions[r] = <<>>
       THEN RouteFails(r, "NoTransactionsExtracted")
       ELSE /\ pc' = [pc EXCEPT ![r] = "save_statement"]
            /\ UNCHANGED <<outcome, session>>
    /\ UNCHANGED <<req, metadata, transactions, idx, db>>
    /\ UNCHANGED <<dedupVars, categoryVars, extractVars>>
    /\ UNCHANGED readVars

\* ------------------------------------------------------------------------
\* save_to_database (lines 246-310), one action per database round trip
\* ------------------------------------------------------------------------
\* lines 307-310: rollback, then the exception reaches the route's except
SaveFails(r, kind) ==
    /\ db' = after_rollback(db, session[r])
    /\ RouteFails(r, kind)

AddTransaction(r, category_id) ==
    [session EXCEPT ![r].txs =
        @ \cup {TransactionRow(r, idx[r], transactions[r][idx[r]], category_id)}]

\* a save that commits the statement row on its own, ahead of its metadata
SaveCommitStatement(r) ==
    /\ pc[r] = "save_statement"
    /\ \/ /\ db' = merge(db, [EmptyStore EXCEPT !.stmts = {StatementRow(r)}])
          /\ pc' = [pc EXCEPT ![r] = "save_metadata"]
          /\ UNCHANGED <<session, outcome>>
       \/ SaveFails(r, "DatabaseError")
    /\ UNCHANGED <<req, metadata, transactions, idx>>
    /\ UNCHANGED <<dedupVars, categoryVars, extractVars>>
    /\ UNCHANGED readVars

\* lines 258-265: the statement row is flushed inside the open transaction
SaveFlushStatement(r) ==
    /\ pc[r] = "save_statement"
    /\ \/ /\ session' = [session EXCEPT ![r].stmts = @ \cup {StatementRow(r)}]
          /\ pc' = [pc EXCEPT ![r] = "save_metadata"]
          /\ UNCHANGED <<db, outcome>>
       \/ SaveFails(r, "DatabaseError")
    /\ UNCHANGED <<req, metadata, transactions, idx>>
    /\ UNCHANGED <<dedupVars, categoryVars, extractVars>>
    /\ UNCHANGED readVars

\* lines 268-277: reading metadata.account_number of None is an AttributeError
SaveAddMetadata(r) ==
    /\ pc[r] = "save_metadata"
    /\ IF metadata[r] = None
       THEN /\ SaveFails(r, "AttributeError")
            /\ idx' = idx
       ELSE /\ session' = [session EXCEPT
                  ![r].metas = @ \cup {MetadataRow(r, Get(metadata[r]))}]
            /\ idx' = [idx EXCEPT ![r] = 1]
            /\ pc' = [pc EXCEPT ![r] = "save_tx"]
            /\ UNCHANGED <<db, outcome>>
    /\ UNCHANGED <<req, metadata, transactions>>
    /\ UNCHANGED <<dedupVars, categoryVars, extractVars>>
    /\ UNCHANGED readVars

\* lines 280-284 and 286-299 for a transaction without category
SaveNextTransaction(r) ==
    /\ pc[r] = "save_tx"
    /\ IF idx[r] > Len(transactions[r])
       THEN /\ pc' = [pc EXCEPT ![r] = "save_commit"]
            /\ UNCHANGED <<session, idx>>
       ELSE IF transactions[r][idx[r]].category # None
       THEN /\ pc' = [pc EXCEPT ![r] = "cat_lookup"]
            /\ UNCHANGED <<session, idx>>
       ELSE /\ session' = AddTransaction(r, None)
            /\ idx' = [idx EXCEPT ![r] = @ + 1]
            /\ pc' = pc
    /\ UNCHANGED <<req, metadata, transactions, db, outcome>>
    /\ UNCHANGED <<dedupVars, categoryVars, extractVars>>
    /\ UNCHANGED readVars

CurrentCategoryName(r) == resolve_db_enum(Get(transactions[r][idx[r]].category))

\* lines 219-222 and 234-237: the select sees committed rows and the rows of
\* its own transaction; scalar_one_or_none raises on more than one row
CategoryLookup(r) ==
    /\ pc[r] = "cat_lookup"
    /\ LET found == select_category(db.cats \cup session[r].cats,
                                    CurrentCategoryName(r))
       IN  \/ /\ Cardinality(found) = 1
              /\ session' = AddTransaction(r, Some((CHOOSE c \in found : TRUE).id))
              /\ idx' = [idx EXCEPT ![r] = @ + 1]
              /\ pc' = [pc EXCEPT ![r] = "save_tx"]
              /\ UNCHANGED <<db, outcome>>
           \/ /\ found = {}
              /\ pc' = [pc EXCEPT ![r] = "cat_create"]
              /\ UNCHANGED <<session, idx, db, outcome>>
           \/ /\ Cardinality(found) > 1
              /\ SaveFails(r, "MultipleResultsFound")
              /\ idx' = idx
           \/ /\ SaveFails(r, "DatabaseError")
              /\ idx' = idx
    /\ UNCHANGED <<req, metadata, transactions>>
    /\ UNCHANGED <<dedupVars, categoryVars, extractVars>>
    /\ UNCHANGED readVars

OthersPending(r) == UNION {session[q].cats : q \in Runs \ {r}}

\* lines 224-228: the INSERT waits while another open transaction holds an
\* uncommitted row of the same name, and violates the unique constraint once
\* a row of that name is committed
CategoryCreate(r) ==
    /\ pc[r] = "cat_create"
    /\ LET name == CurrentCategoryName(r)
           row == CategoryRow(<<r, name>>, name)
       IN  \/ /\ ~uq_bank_categories_name(db.cats, name)
              /\ ~uq_bank_categories_name(OthersPending(r), name)
              /\ session' = [AddTransaction(r, Some(row.id)) EXCEPT
                                ![r].cats = @ \cup {row}]
              /\ idx' = [idx EXCEPT ![r] = @ + 1]
              /\ pc' = [pc EXCEPT ![r] = "save_tx"]
              /\ UNCHANGED <<db, outcome>>
           \/ /\ uq_bank_categories_name(db.cats, name)
              /\ SaveFails(r, "IntegrityError")
              /\ idx' = idx
           \/ /\ SaveFails(r, "DatabaseError")
              /\ idx' = idx
    /\ UNCHANGED <<req, metadata, transactions>>
    /\ UNCHANGED <<dedupVars, categoryVars, extractVars>>
    /\ UNCHANGED readVars

\* line 301
SaveCommit(r) ==
    /\ pc[r] = "save_commit"
    /\ \/ /\ db' = merge(db, session[r])
          /\ session' = [session EXCEPT ![r] = EmptyStore]
          /\ pc' = [pc EXCEPT ![r] = "save_refresh"]
          /\ UNCHANGED outcome
       \/ SaveFails(r, "DatabaseError")
    /\ UNCHANGED <<req, metadata, transactions, idx>>
    /\ UNCHANGED <<dedupVars, categoryVars, extractVars>>
    /\ UNCHANGED readVars

\* line 302: the refresh runs inside the try block, after the commit
SaveRefresh(r) ==
    /\ pc[r] = "save_refresh"
    /\ \/ /\ pc' = [pc EXCEPT ![r] = "refetch"]
          /\ UNCHANGED <<db, session, outcome>>
       \/ SaveFails(r, "DatabaseError")
    /\ UNCHANGED <<req, metadata, transactions, idx>>
    /\ UNCHANGED <<dedupVars, categoryVars, extractVars>>
    /\ UNCHANGED readVars

\* routes lines 176-184: scalar_one() over the committed statement
Refetch(r) ==
    /\ pc[r] = "refetch"
    /\ \/ /\ \E s \in db.stmts : \E o \in load_bank_transactions(db, r) :
                /\ s.id = r
                /\ complete_statement' =
                       [complete_statement EXCEPT ![r] = Some(load_statement(s, db, o))]
          /\ pc' = [pc EXCEPT ![r] = "convert"]
          /\ UNCHANGED <<session, outcome>>
       \/ /\ RouteFails(r, "DatabaseError")
          /\ UNCHANGED complete_statement
    /\ UNCHANGED <<req, metadata, transactions, idx, db, response, view>>
    /\ UNCHANGED <<dedupVars, categoryVars, extractVars>>

\* routes line 191: convert_to_schema(complete_statement) is returned
ConvertToSchema(r) ==
    /\ pc[r] = "convert"
    /\ pc' = [pc EXCEPT ![r] = "completed"]
    /\ outcome' = [outcome EXCEPT ![r] = Completed]
    /\ response' = [response EXCEPT ![r] = Some(convert_to_schema(Get(complete_statement[r])))]
    /\ UNCHANGED <<req, metadata, transactions, idx, session, db, complete_statement, view>>
    /\ UNCHANGED <<dedupVars, categoryVars, extractVars>>

\* routes lines 443-465: GET /bank-statements/{statement_id} by user u
GetBankStatementWithData(u, statement_id) ==
    /\ LET found == {s \in db.stmts :
                        s.id = statement_id /\ s.user_id = u /\ s.is_active} IN
         IF found = {}
         THEN view' = NotFound
         ELSE \E s \in found : \E o \in load_bank_transactions(db, statement_id) :
                  view' = Ok(convert_to_schema(load_statement(s, db, o)))
    /\ UNCHANGED <<pc, req, metadata, transactions, idx, session, db, outcome>>
    /\ UNCHANGED <<complete_statement, response>>
    /\ UNCHANGED <<dedupVars, categoryVars, extractVars>>

\* routes lines 298-304: select(BankTransactionModel) filtered on user_id
select_by_user_id(rows, u) == {t \in rows : t.user_id = Some(u)}

\* routes line 307: `t.category.name.value if t.category else "OTHER"`
summary_category(t, cats) ==
    IF t.category_id = None THEN "OTHER" ELSE Get(category_value(t, cats))

RECURSIVE sum_abs_amount(_)
sum_abs_amount(rows) ==
    IF rows = {} THEN 0
    ELSE LET t == CHOOSE x \in rows : TRUE
         IN  Abs(t.amount) + sum_abs_amount(rows \ {t})

\* routes lines 305-312: count and total of abs(amount) per category value
category_breakdown(rows, cats) ==
    [c \in {summary_category(t, cats) : t \in rows} |->
        LET of_c == {t \in rows : summary_category(t, cats) = c}
        IN  [count |-> Cardinality(of_c), total |-> sum_abs_amount(of_c)]]

\* routes lines 293-312: GET /bank-statements/transactions/categories/summary
GetCategorizedSummaryAll(u) ==
    /\ view' = Ok([user |-> u,
                   summary |-> category_breakdown(select_by_user_id(db.txs, u), db.cats)])
    /\ UNCHANGED <<pc, req, metadata, transactions, idx, session, db, outcome>>
    /\ UNCHANGED <<complete_statement, response>>
    /\ UNCHANGED <<dedupVars, categoryVars, extractVars>>

\* an unhandled exception of a read or delete route: FastAPI answers 500
InternalError(kind) == [status |-> 500, body |-> Some(kind)]

\* ------------------------------------------------------------------------
\* Financial score (routes lines 198-290)
\* ------------------------------------------------------------------------
\* The routes compute with Python floats; the model computes the same
\* expressions over exact fractions in lowest terms.
RECURSIVE Gcd(_, _)
Gcd(a, b) == IF b = 0 THEN a ELSE Gcd(b, a % b)

Frac(n, d) ==
    LET g == Gcd(Abs(n), d) IN [num |-> n \div g, den |-> d \div g]

FracLeq(a, b) == a.num * b.den <= b.num * a.den

FracMin(a, b) == IF FracLeq(a, b) THEN a ELSE b

FracMax(a, b) == IF FracLeq(a, b) THEN b ELSE a

FracAdd(a, b) == Frac(a.num * b.den + b.num * a.den, a.den * b.den)

FracSub(a, b) == Frac(a.num * b.den - b.num * a.den, a.den * b.den)

\* round(x): to the nearest integer, a tie to the even one
round(x) ==
    LET f == x.num \div x.den
        twice == 2 * (x.num % x.den)
    IN  IF twice < x.den THEN f
        ELSE IF twice > x.den THEN f + 1
        ELSE IF f % 2 = 0 THEN f ELSE f + 1

\* round(x, 2), in hundredths
round2(x) == round(Frac(100 * x.num, x.den))

RECURSIVE sum_amount(_)
sum_amount(rows) ==
    IF rows = {} THEN 0
    ELSE LET t == CHOOSE x \in rows : TRUE
         IN  t.amount + sum_amount(rows \ {t})

\* lines 228-229 and 274-275
total_income(rows) == sum_amount({t \in rows : t.amount > 0})

total_expenses(rows) == sum_abs_amount({t \in rows : t.amount < 0})

\* lines 236-237 and 279-280: `savings / total_income` raises
\* ZeroDivisionError when the income is zero; None stands for the raise
savings_score(rows) ==
    LET income == total_income(rows)
        savings == income - total_expenses(rows)
    IN  IF savings > 0 THEN Some(Frac(30, 1))
        ELSE IF income = 0 THEN None
        ELSE Some(FracMax(Frac(0, 1), FracAdd(Frac(30, 1), Frac(30 * savings, income))))

\* lines 231 and 276
income_score(rows, income_range) ==
    FracMin(Frac(40, 1), Frac(40 * total_income(rows), income_range))

\* lines 233-234 and 277-278: (avg_expense / 10000) * 30
expense_score(rows) ==
    FracSub(Frac(30, 1),
            FracMin(Frac(30, 1),
                    Frac(30 * total_expenses(rows), 10000 * Cardinality(rows))))

\* lines 228-250 and 274-290 for a non-empty list of transactions
score_answer(rows, income_range) ==
    IF savings_score(rows) = None THEN InternalError("ZeroDivisionError")
    ELSE LET i == income_score(rows, income_range)
             e == expense_score(rows)
             v == Get(savings_score(rows))
             financial_score == round(FracAdd(FracAdd(i, e), v))
         IN  Ok([financial_score |-> Min(100, IF financial_score < 0 THEN 0 ELSE financial_score),
                 breakdown |-> [income_score |-> round2(i),
                                expense_score |-> round2(e),
                                savings_score |-> round2(v)]])

ActiveStatements(store, u) == {s \in store.stmts : s.user_id = u /\ s.is_active}

TransactionsOf(store, stmts) ==
    {t \in store.txs : \E s \in stmts : t.statement_id = s.id}

\* routes lines 198-250.  created_at is the start time of the inserting
\* database transaction, which the steps of a run do not order: with several
\* active statements either may be the first row of the ordered select.
GetFinancialScore(u, income_range) ==
    /\ LET active == ActiveStatements(db, u) IN
         IF active = {}
         THEN view' = NotFound
         ELSE \E statement \in active :
                 LET rows == TransactionsOf(db, {statement}) IN
                 IF rows = {} THEN view' = NotFound
                 ELSE view' = score_answer(rows, income_range)
    /\ UNCHANGED <<pc, req, metadata, transactions, idx, session, db, outcome>>
    /\ UNCHANGED <<complete_statement, response>>
    /\ UNCHANGED <<dedupVars, categoryVars, extractVars>>

\* routes lines 253-290
GetOverallFinancialScore(u, income_range) ==
    /\ LET all_transactions == TransactionsOf(db, ActiveStatements(db, u)) IN
         IF all_transactions = {}
         THEN view' = Ok([financial_score |-> 0, details |-> "No transactions found"])
         ELSE view' = score_answer(all_transactions, income_range)
    /\ UNCHANGED <<pc, req, metadata, transactions, idx, session, db, outcome>>
    /\ UNCHANGED <<complete_statement, response>>
    /\ UNCHANGED <<dedupVars, categoryVars, extractVars>>

\* a delete that removes the statement row itself and leaves its dependants
hard_delete(store, s) == [store EXCEPT !.stmts = @ \ {s}]

\* routes lines 486-487: `statement.is_active = False`, made durable by the
\* commit; no other column and no other row is written
soft_delete(store, s) ==
    [store EXCEPT !.stmts = (@ \ {s}) \cup {[s EXCEPT !.is_active = FALSE]}]

\* routes lines 467-489: DELETE /bank-statements/{statement_id} by user u;
\* the select or the commit may raise, which leaves the store as it was
DeleteBankStatement(u, statement_id) ==
    /\ LET found == {s \in db.stmts :
                        s.id = statement_id /\ s.user_id = u /\ s.is_active} IN
         IF found = {}
         THEN /\ view' = NotFound
              /\ db' = db
         ELSE \E s \in found :
                  \/ /\ db' = soft_delete(db, s)
                     /\ view' = Ok([s EXCEPT !.is_active = FALSE])
                  \/ /\ db' = db
                     /\ view' = InternalError("DatabaseError")
    /\ UNCHANGED <<pc, req, metadata, transactions, idx, session, outcome>>
    /\ UNCHANGED <<complete_statement, response>>
    /\ UNCHANGED <<dedupVars, categoryVars, extractVars>>

\* ------------------------------------------------------------------------
\* Specifications
\* ------------------------------------------------------------------------
Init == InitMain /\ DedupIdle /\ CategoryIdle /\ ExtractIdle

Next ==
    \E r \in Runs :
        \/ ValidateRequest(r)
        \/ ExtractData(r)
        \/ CheckTransactions(r)
        \/ SaveFlushStatement(r)
        \/ SaveAddMetadata(r)
        \/ SaveNextTransaction(r)
        \/ CategoryLookup(r)
        \/ CategoryCreate(r)
        \/ SaveCommit(r)
        \/ SaveRefresh(r)
        \/ Refetch(r)
        \/ ConvertToSchema(r)

Spec == Init /\ [][Next]_vars

\* the upload route together with the read route, for uploads that parse
ReadDocNames == {"single", "no_evidence", "all_none"}

InitRead ==
    /\ InitMain /\ DedupIdle /\ CategoryIdle /\ ExtractIdle
    /\ \A r \in Runs : req[r].doc \in ReadDocNames /\ req[r].pdf

NextRead ==
    \/ Next
    \/ \E u \in Users : \E r \in Runs : GetBankStatementWithData(u, r)

SpecRead == InitRead /\ [][NextRead]_vars

\* the upload route together with the delete route
DeleteDocNames == {"single", "meta_none", "no_evidence"}

InitDelete ==
    /\ InitMain /\ DedupIdle /\ CategoryIdle /\ ExtractIdle
    /\ \A r \in Runs : req[r].doc \in DeleteDocNames /\ req[r].pdf

NextDelete ==
    \/ Next
    \/ \E u \in Users : \E r \in Runs : DeleteBankStatement(u, r)

SpecDelete == InitDelete /\ [][NextDelete]_vars

\* the upload route together with the category summary route
SummaryDocNames == {"single", "no_evidence"}

InitSummary ==
    /\ InitMain /\ DedupIdle /\ CategoryIdle /\ ExtractIdle
    /\ \A r \in Runs : req[r].doc \in SummaryDocNames /\ req[r].pdf

NextSummary ==
    \/ Next
    \/ \E u \in Users : GetCategorizedSummaryAll(u)

SpecSummary == InitSummary /\ [][NextSummary]_vars

\* uploads that name a target account
AccountDocNames == {"single"}

InitAccount ==
    /\ InitMainWith(AccountDocNames, {None} \cup {Some(a) : a \in AccountIds})
    /\ DedupIdle /\ CategoryIdle /\ ExtractIdle
    /\ \A r \in Runs : req[r].pdf

NextAccount ==
    \/ Next
    \/ \E r \in Runs : CheckAccount(r)

SpecAccount == InitAccount /\ [][NextAccount]_vars

\* the upload and delete routes together with the two score routes
ScoreDocNames == {"expenses", "deficit"}

IncomeRanges == {1000, 100000}

InitScore ==
    /\ InitMainWith(ScoreDocNames, {None})
    /\ DedupIdle /\ CategoryIdle /\ ExtractIdle
    /\ \A r \in Runs : req[r].pdf

NextScore ==
    \/ Next
    \/ \E u \in Users : \E r \in Runs : DeleteBankStatement(u, r)
    \/ \E u \in Users : \E income_range \in IncomeRanges :
            GetFinancialScore(u, income_range)
    \/ \E u \in Users : \E income_range \in IncomeRanges :
            GetOverallFinancialScore(u, income_range)

SpecScore == InitScore /\ [][NextScore]_vars

InitDedupSpec == InitDedup /\ CategoryIdle /\ MainIdle /\ ExtractIdle

SpecDedup == InitDedupSpec /\ [][NextDedup]_vars

InitCategorySpec == InitCategory /\ DedupIdle /\ MainIdle /\ ExtractIdle

SpecCategory == InitCategorySpec /\ [][NextCategory]_vars

InitExtractSpec == InitExtract /\ DedupIdle /\ CategoryIdle /\ MainIdle

SpecExtract == InitExtractSpec /\ [][NextExtract]_vars

\* the executor's workers run, an answered call completes and the caller of
\* batch() goes on: every step that stays possible is eventually taken
SpecExtractFair == InitExtractSpec /\ [][NextExtract]_vars /\ WF_vars(NextExtract)


\* ------------------------------------------------------------------------
\* Claims about _remove_duplicate_transactions
\* ------------------------------------------------------------------------
KeysOf(s) == {dedup_key(s[i]) : i \in DOMAIN s}

GroupOf(s, k) == {s[i] : i \in {j \in DOMAIN s : dedup_key(s[j]) = k}}

\* the reorderings of the list s
Reorderings(s) == {[i \in DOMAIN s |-> s[p[i]]] : p \in Permutations(DOMAIN s)}

\* C6: in every group of candidates sharing a dedup key, whatever the order
\* of processing, the survivor has a balance when any candidate of the group
\* has one, and, when the balance does not discriminate (all or none of the
\* group have one), a reference number when any candidate of the group has one.
C6_MostCompleteWins ==
    d_pc # "input" =>
        \A i \in DOMAIN d_unique :
            LET g == GroupOf(d_input, dedup_key(d_unique[i])) IN
            /\ (\E c \in g : c.balance # None) => d_unique[i].balance # None
            /\ ((\A c \in g : c.balance # None) \/ (\A c \in g : c.balance = None))
                 => ((\E c \in g : Truthy(c.reference_number))
                        => Truthy(d_unique[i].reference_number))

\* C7: the set of survivors is the same for every reordering of the
\* candidate list.
C7_OrderIndependent ==
    d_pc # "input" =>
        \A p \in Reorderings(d_input) :
            SeqToSet(remove_duplicate_transactions(p)) = SeqToSet(d_unique)

\* the dedup key as the claim words it: day of the date, absolute amount,
\* first 50 characters of the description stripped and upper-cased
FirstChars(d, n) == [i \in 1..(IF Len(d) < n THEN Len(d) ELSE n) |-> d[i]]

StatedKey(t) ==
    <<t.date \div TicksPerDay, IF t.amount < 0 THEN -t.amount ELSE t.amount,
      upper(strip(FirstChars(t.description, 50)))>>

\* C13: no two records in the output of _remove_duplicate_transactions have
\* the same dedup key (day, absolute amount, first 50 characters of the
\* description stripped and upper-cased).
C13_SurvivorsHaveDistinctKeys ==
    d_pc # "input" =>
        \A i \in DOMAIN d_unique : \A j \in DOMAIN d_unique :
            StatedKey(d_unique[i]) = StatedKey(d_unique[j]) => i = j

\* two candidates that differ only after the 50th character of the
\* description have collapsed into one record, next to a record of another key
C13_Witness ==
    /\ d_pc # "input"
    /\ Len(d_unique) = 2 /\ Len(d_input) = 3
    /\ \E i \in DOMAIN d_input : \E j \in DOMAIN d_input :
           /\ d_input[i].description # d_input[j].description
           /\ Len(d_input[i].description) > 50
           /\ StatedKey(d_input[i]) = StatedKey(d_input[j])

\* a balance-bearing and a balance-less candidate of one key, neither with a
\* reference number, and no other candidate of that key in the list
ScenarioAPair(s, i, j) ==
    /\ i # j
    /\ StatedKey(s[i]) = StatedKey(s[j])
    /\ ~Truthy(s[i].reference_number) /\ ~Truthy(s[j].reference_number)
    /\ s[i].balance # None /\ s[j].balance = None
    /\ \A k \in DOMAIN s : StatedKey(s[k]) = StatedKey(s[i]) => k \in {i, j}

\* C14: of two candidates sharing a dedup key, neither with a reference
\* number, one with a balance and one without, exactly one record is
\* returned for that key and it is the balance-bearing one, whichever of the
\* two comes first.
C14_BalanceBearingCopyKept ==
    d_pc # "input" =>
        \A i \in DOMAIN d_input : \A j \in DOMAIN d_input :
            ScenarioAPair(d_input, i, j) =>
                /\ Cardinality({k \in DOMAIN d_unique :
                        StatedKey(d_unique[k]) = StatedKey(d_input[i])}) = 1
                /\ \E k \in DOMAIN d_unique : d_unique[k] = d_input[i]

\* the balance-less copy arrived first and was replaced
C14_Witness ==
    /\ d_pc # "input"
    /\ \E i \in DOMAIN d_input : \E j \in DOMAIN d_input :
           ScenarioAPair(d_input, i, j) /\ j < i

PositionIn(s, x) == CHOOSE k \in DOMAIN s : s[k] = x

\* C16: the list returned by extract_data is sorted ascending by date and
\* records of equal date keep the relative order they had in the
\* deduplicated list.
C16_SortedAndStable ==
    d_pc = "sorted" =>
        /\ Len(d_sorted) = Len(d_unique)
        /\ SeqToSet(d_sorted) = SeqToSet(d_unique)
        /\ \A i \in DOMAIN d_sorted : \A j \in DOMAIN d_sorted :
               i < j => d_sorted[i].date <= d_sorted[j].date
        /\ \A i \in DOMAIN d_unique : \A j \in DOMAIN d_unique :
               (i < j /\ d_unique[i].date = d_unique[j].date)
                 => PositionIn(d_sorted, d_unique[i]) < PositionIn(d_sorted, d_unique[j])

\* the sort moved a record forward past two records of equal date
C16_Witness ==
    /\ d_pc = "sorted"
    /\ d_sorted # d_unique
    /\ \E i \in DOMAIN d_unique : \E j \in DOMAIN d_unique :
           i < j /\ d_unique[i].date = d_unique[j].date

\* C28: every record returned by _remove_duplicate_transactions is one of
\* the input candidates unchanged, and as many records are returned as the
\* input has distinct dedup keys.
C28_SurvivorsAreInputs ==
    d_pc # "input" =>
        /\ \A i \in DOMAIN d_unique : \E j \in DOMAIN d_input : d_unique[i] = d_input[j]
        /\ Len(d_unique) = Cardinality({StatedKey(d_input[j]) : j \in DOMAIN d_input})

\* candidates of one key, one bearing only a balance and one only a
\* reference number, have collided next to a record of another key
C28_Witness ==
    /\ d_pc # "input"
    /\ Len(d_input) = 3 /\ Len(d_unique) = 2
    /\ \E i \in DOMAIN d_input : \E j \in DOMAIN d_input :
           /\ StatedKey(d_input[i]) = StatedKey(d_input[j])
           /\ d_input[i].balance # None /\ ~Truthy(d_input[i].reference_number)
           /\ d_input[j].balance = None /\ Truthy(d_input[j].reference_number)

\* ------------------------------------------------------------------------
\* Claims about category resolution
\* ------------------------------------------------------------------------
\* C10: resolving the label of an enumeration member returns the Category
\* named by that member; a label matching no member returns OTHER.
C10_LabelResolvesToMember ==
    c_calls > 0 =>
        /\ \A i \in Members :
               c_label = MemberValues[i] => Get(c_result).name = MemberNames[i]
        /\ (ByName(upper(c_label)) = {} /\ ByValue(c_label) = {})
               => Get(c_result).name = "OTHER"


\* ------------------------------------------------------------------------
\* Claims about the request and the store
\* ------------------------------------------------------------------------
\* rows of the store that were created by request r
RowsOf(r) ==
    Store({s \in db.stmts : s.id = r}, {m \in db.metas : m.statement_id = r},
          {t \in db.txs : t.statement_id = r}, {})

HasRows(r) == RowsOf(r) # EmptyStore

\* the statement of request r is in the store with its metadata row and one
\* transaction row per extracted transaction
CompleteRows(r) ==
    /\ Cardinality(RowsOf(r).stmts) = 1
    /\ Cardinality(RowsOf(r).metas) = 1
    /\ {t.id : t \in RowsOf(r).txs} = {<<r, i>> : i \in DOMAIN transactions[r]}

\* positions inside save_to_database up to and including the commit
WriteStages ==
    {"save_statement", "save_metadata", "save_tx", "cat_lookup", "cat_create",
     "save_commit"}

\* C1: when save_to_database fails at any step up to and including the commit,
\* the store holds no statement, metadata or transaction row of that call,
\* and in every state the store holds either none or all rows of a statement.
C1_SaveIsAtomic ==
    \A r \in Runs :
        /\ (outcome[r].state = "failed" /\ outcome[r].stage \in WriteStages)
              => ~HasRows(r)
        /\ HasRows(r) => CompleteRows(r)

\* a save failed on creating a category, after the statement was flushed,
\* while the other request's statement is committed
C1_Witness ==
    \E r \in Runs, q \in Runs :
        /\ outcome[r].state = "failed" /\ outcome[r].stage = "cat_create"
        /\ q # r /\ HasRows(q)

\* C2: whenever the request ends by reporting a failure, the store holds no
\* row created by that request.
C2_FailureLeavesNothing ==
    \A r \in Runs : outcome[r].state = "failed" => ~HasRows(r)

PartialChunkFailure(doc) ==
    /\ doc.readable /\ doc.meta.kind = "ok"
    /\ \E i \in DOMAIN doc.chunks : doc.chunks[i].kind = "raise"
    /\ \E i \in DOMAIN doc.chunks :
           doc.chunks[i].kind = "ok" /\ doc.chunks[i].txs # <<>>

\* C3: when one chunk call fails while others succeed, extract_data does not
\* abort and returns the transactions of the other chunks.
C3_FailedChunkIsAbsorbed ==
    \A r \in Runs :
        (PartialChunkFailure(Doc(req[r].doc)) /\ pc[r] \notin {"received", "extract"}
            /\ req[r].pdf)
          => /\ outcome[r].stage # "extract"
             /\ SeqToSet(transactions[r]) =
                  SeqToSet(remove_duplicate_transactions(
                               combine_transactions(Doc(req[r].doc).chunks)))

MetadataDegraded(doc) ==
    /\ doc.readable
    /\ doc.meta.kind = "raise" \/ doc.meta.value = None
    /\ ~batch_raises(doc.chunks)
    /\ combine_transactions(doc.chunks) # <<>>

\* C4: when the metadata call fails or returns nothing the run is not failed
\* for it, and the metadata row it persists has all six fields null.
C4_MetadataFailureNotFatal ==
    \A r \in Runs :
        MetadataDegraded(Doc(req[r].doc))
          => /\ outcome[r].kind \notin {"MetadataCallFailed", "AttributeError"}
             /\ \A m \in RowsOf(r).metas : m.fields = MetaAllNull

NothingExtracted(doc) ==
    /\ doc.readable /\ doc.meta.kind = "ok"
    /\ \A i \in DOMAIN doc.chunks :
           doc.chunks[i].kind # "ok" \/ doc.chunks[i].txs = <<>>

\* C5: when every chunk fails or yields nothing the run ends in the failure
\* kind NoTransactionsExtracted, before save_to_database, with no row stored.
C5_NoTransactionsIsItsOwnFailure ==
    \A r \in Runs :
        (NothingExtracted(Doc(req[r].doc)) /\ pc[r] \in {"failed", "completed"}
            /\ req[r].pdf)
          => /\ outcome[r].state = "failed"
             /\ outcome[r].kind = "NoTransactionsExtracted"
             /\ outcome[r].stage = "check"
             /\ ~HasRows(r)

AllTransactionRows == db.txs \cup UNION {session[r].txs : r \in Runs}

LabelOf(t) == transactions[t.id[1]][t.id[2]].category

C9_ConflictNeverSurfaced ==
    \A r \in Runs : outcome[r].kind # "IntegrityError"

\* ------------------------------------------------------------------------
\* Claims about the completeness of persisted transactions
\* ------------------------------------------------------------------------
OtherName == "OTHER"

\* C11: every persisted transaction carries the id of an existing Category
\* row, and a candidate without a category label is given the OTHER category.
C11_EveryTransactionHasCategory ==
    \A t \in db.txs :
        /\ t.category_id # None
        /\ \E c \in db.cats :
               /\ c.id = Get(t.category_id)
               /\ LabelOf(t) = None => c.name = OtherName

\* C12: every persisted transaction has a non-empty evidence text.
C12_EvidenceNeverEmpty == \A t \in db.txs : t.evidence # ""

\* ------------------------------------------------------------------------
\* Claims about the order of transactions
\* ------------------------------------------------------------------------
AscendingByDate(s) ==
    \A i \in DOMAIN s : \A j \in DOMAIN s : i < j => s[i].date <= s[j].date

\* C15: the transaction list of a statement read back from the store, in the
\* body returned by extract_bank_statement and in the body returned by
\* get_bank_statement_with_data, is sorted ascending by date.
C15_ReadBackSortedByDate ==
    /\ \A r \in Runs :
           response[r] # None => AscendingByDate(Get(response[r]).transactions)
    /\ view.status = 200 => AscendingByDate(Get(view.body).transactions)

\* ------------------------------------------------------------------------
\* Claims about the concurrent chunk calls
\* ------------------------------------------------------------------------
\* C17: for a fixed document and fixed per-chunk results, the ordered
\* transaction list returned by extract_data is the same whatever the order
\* in which the chunk calls complete: it is the list that the results taken
\* in chunk order give.
C17_CompletionOrderIrrelevant ==
    e_pc = "returned" =>
        Get(e_out).transactions = extract_data(Doc(e_doc)).transactions

\* the calls of a document with records of equal date completed out of
\* chunk order, a later chunk first
C17_Witness ==
    /\ e_pc = "returned"
    /\ e_doc = "ties"
    /\ e_arrival[1] > e_arrival[2]
    /\ Len(Get(e_out).transactions) > 2

\* C18: at every moment at most 3 chunk calls are in flight, whatever the
\* number of chunks; further calls wait until one in flight has finished.
C18_AtMostThreeInFlight == Cardinality(InFlight) <= 3

\* three calls are in flight while further chunks wait for a free worker
C18_Witness == Cardinality(InFlight) = 3 /\ Queued # {}

\* C19: every run eventually ends, its extraction having returned or raised,
\* even when an extraction call is never answered.
C19_RunTerminates == <>(e_pc \in {"returned", "raised"})

\* ------------------------------------------------------------------------
\* Claims about the stages of a run
\* ------------------------------------------------------------------------
\* the stage a request is in: extract_data covers Loading, Extracting and
\* Deduplicating in one call, resolving a label is Categorizing, writing rows
\* and reading them back is Persisting
StageOf(p) ==
    CASE p \in {"received", "account"} -> "Received"
      [] p = "extract" -> "Loading"
      [] p = "check" -> "Deduplicating"
      [] p \in {"cat_lookup", "cat_create"} -> "Categorizing"
      [] p \in {"save_statement", "save_metadata", "save_tx", "save_commit",
                "save_refresh", "refetch", "convert"} -> "Persisting"
      [] p = "completed" -> "Completed"
      [] p = "failed" -> "Failed"

Terminal == {"Completed", "Failed"}

\* the order of the stages as the claim lists them
StatedRank(stage) ==
    CASE stage = "Received" -> 1
      [] stage = "Loading" -> 2
      [] stage = "Extracting" -> 3
      [] stage = "Deduplicating" -> 4
      [] stage = "Categorizing" -> 5
      [] stage = "Persisting" -> 6
      [] stage \in Terminal -> 7

\* the same order with Categorizing and Persisting as one write phase
WritePhaseRank(stage) ==
    IF stage = "Persisting" THEN StatedRank("Categorizing") ELSE StatedRank(stage)

TerminalIsFinal(r) ==
    /\ StageOf(pc[r]) \in Terminal => pc'[r] = pc[r] /\ outcome'[r] = outcome[r]
    /\ pc'[r] = "completed" => outcome'[r].state = "completed"
    /\ pc'[r] = "failed" => outcome'[r].state = "failed" /\ outcome'[r].kind # ""
    /\ StageOf(pc'[r]) \notin Terminal => outcome'[r].state = "running"

\* a request that goes on after a step has lost nothing: once it is
\* Completed every row of its statement is stored
NothingSkipped(r) == pc'[r] = "completed" => CompleteRows(r)'

Unreadable(r) == req[r].pdf /\ ~Doc(req[r].doc).readable

\* C21: when load_pdf fails on an unreadable document the run ends in
\* Failed(DocumentUnreadable) without the result of any metadata or chunk
\* call, and nothing of it is persisted or pending.
C21_UnreadableFailsBeforeExtraction ==
    \A r \in Runs :
        Unreadable(r) =>
            /\ pc[r] \in {"received", "extract", "failed"}
            /\ pc[r] = "failed" => outcome[r].kind = "DocumentUnreadable"
            /\ metadata[r] = None /\ transactions[r] = <<>>
            /\ ~HasRows(r) /\ session[r] = EmptyStore

\* an unreadable upload has failed while the other request stored its rows
C21_Witness ==
    \E r \in Runs : \E q \in Runs :
        /\ Unreadable(r) /\ pc[r] = "failed"
        /\ pc[q] = "completed" /\ HasRows(q)

\* ------------------------------------------------------------------------
\* Claims about runs on the same document
\* ------------------------------------------------------------------------
TwiceTheSameDocument ==
    /\ req[1].doc = req[2].doc /\ req[1].user = req[2].user
    /\ \A r \in Runs : pc[r] = "completed"

\* C25: two successful runs on the same document leave two distinct
\* statement rows, each with its own metadata row and its own transaction
\* rows, and no step of one run reuses or changes the stored rows of the
\* other.
C25_RunsAreIndependent ==
    /\ [](TwiceTheSameDocument =>
            /\ \A r \in Runs : CompleteRows(r)
            /\ Cardinality(db.stmts) = 2 /\ Cardinality(db.metas) = 2
            /\ Cardinality(db.txs) = 2 * Len(transactions[1])
            /\ \A t \in db.txs : \E r \in Runs :
                   /\ t.statement_id = r
                   /\ \E i \in DOMAIN transactions[r] :
                          /\ t.id = <<r, i>>
                          /\ t.date = transactions[r][i].date
                          /\ t.description = transactions[r][i].description
                          /\ t.amount = transactions[r][i].amount)
    /\ [][\A r \in Runs : HasRows(r) => RowsOf(r)' = RowsOf(r)]_vars

\* the same document with several transactions was stored twice for one user
C25_Witness == TwiceTheSameDocument /\ Len(transactions[1]) > 1 /\ Cardinality(db.txs) > 2

\* ------------------------------------------------------------------------
\* Claims about the Category table after a failed save
\* ------------------------------------------------------------------------
\* every position of a request inside save_to_database
SaveStages == WriteStages \cup {"save_refresh"}

\* C29: when save_to_database fails after it created Category rows, the
\* rollback removes them: the committed Category table holds no row created
\* by a call that failed.
C29_FailedSaveLeavesNoCategory ==
    \A r \in Runs :
        (outcome[r].state = "failed" /\ outcome[r].stage \in SaveStages)
          => ~\E c \in db.cats : c.id[1] = r

\* ------------------------------------------------------------------------
\* Statements, their metadata and their transactions under soft delete
\* ------------------------------------------------------------------------
MetadataOf(store, s) == {m \in store.metas : m.statement_id = s.id}

StatementOf(store, sid) == {s \in store.stmts : s.id = sid}

\* C22: in every committed store state each statement has exactly one
\* metadata row and each metadata row belongs to exactly one stored
\* statement; neither is committed without the other.
C22_StatementAndMetadataOneToOne ==
    /\ \A s \in db.stmts : Cardinality(MetadataOf(db, s)) = 1
    /\ \A m \in db.metas : Cardinality(StatementOf(db, m.statement_id)) = 1

C22_Witness ==
    /\ Cardinality(db.stmts) = 2
    /\ Cardinality(db.metas) = 2
    /\ \E s \in db.stmts : ~s.is_active
    /\ Cardinality(db.txs) > 2

\* C23: in every committed store state, also after delete_bank_statement,
\* every transaction row references a stored statement that is active.
C23_TransactionsReferenceLiveStatement ==
    \A t \in db.txs :
        \E s \in db.stmts : s.id = t.statement_id /\ s.is_active

\* C24: delete_bank_statement changes nothing but the is_active flag of the
\* caller's own active statement, which it sets to false; no step of the
\* system removes a statement, metadata or transaction row or changes a
\* stored transaction or metadata row.
C24_DeleteOnlyDeactivates ==
    [][ /\ \A s \in db.stmts : StatementOf(db', s.id) # {}
        /\ db.metas \subseteq db'.metas
        /\ db.txs \subseteq db'.txs
        /\ \A u \in Users : \A r \in Runs :
              DeleteBankStatement(u, r) =>
                /\ db'.metas = db.metas /\ db'.txs = db.txs /\ db'.cats = db.cats
                /\ Cardinality(db'.stmts) = Cardinality(db.stmts)
                /\ \A s \in db.stmts :
                      IF s.id = r /\ s.user_id = u /\ s.is_active
                      THEN s \in db'.stmts \/ [s EXCEPT !.is_active = FALSE] \in db'.stmts
                      ELSE s \in db'.stmts
      ]_vars

C24_Witness ==
    /\ view.status = 200
    /\ \E s \in db.stmts :
          /\ ~s.is_active
          /\ view.body = Some(s)
          /\ MetadataOf(db, s) # {}
          /\ Cardinality({t \in db.txs : t.statement_id = s.id}) > 1
    /\ \E k \in db.stmts : k.is_active

\* ------------------------------------------------------------------------
\* Ownership of transaction rows
\* ------------------------------------------------------------------------
OwnerOf(store, t) == {s.user_id : s \in StatementOf(store, t.statement_id)}

TransactionsOfUser(store, u) == {t \in store.txs : u \in OwnerOf(store, t)}

\* C26: every committed transaction row carries the user id of the owner of
\* its statement, and the per-user transaction query of the category
\* summary selects exactly the transactions of that user's statements.
C26_RowsCarryOwner ==
    /\ \A t \in db.txs : t.user_id # None /\ Get(t.user_id) \in OwnerOf(db, t)
    /\ \A u \in Users : select_by_user_id(db.txs, u) = TransactionsOfUser(db, u)

\* ------------------------------------------------------------------------
\* Target accounts
\* ------------------------------------------------------------------------
OwnAccount(r) ==
    \E a \in Accounts : a.id = Get(req[r].account) /\ a.user_id = req[r].user

ForeignOrMissingAccount(r) == req[r].account # None /\ ~OwnAccount(r)

\* C27: a request that names an account which does not exist or belongs to
\* another user is rejected before the document is loaded: extract_data is
\* never called for it and no row of it is pending or stored; no transaction
\* row is linked to an account of another user than its statement's owner.
C27_ForeignAccountRejected ==
    /\ \A r \in Runs : ForeignOrMissingAccount(r) =>
          /\ pc[r] \in {"received", "account", "failed"}
          /\ pc[r] = "failed" => outcome[r].stage = "account"
                                 /\ outcome[r].status \in {404, 500}
          /\ metadata[r] = None /\ transactions[r] = <<>>
          /\ ~HasRows(r) /\ session[r] = EmptyStore
    /\ \A t \in AllTransactionRows :
          t.account_id # None =>
              \E a \in Accounts : /\ a.id = Get(t.account_id)
                                  /\ a.user_id = req[t.statement_id].user

C27_Witness ==
    \E r \in Runs : \E q \in Runs :
        /\ ForeignOrMissingAccount(r)
        /\ \E a \in Accounts : a.id = Get(req[r].account)
        /\ pc[r] = "failed" /\ outcome[r].status = 404
        /\ pc[q] = "completed"
        /\ \E t \in db.txs : t.statement_id = q /\ t.account_id # None

\* ------------------------------------------------------------------------
\* Financial score
\* ------------------------------------------------------------------------
Scored(v) ==
    /\ v.status = 200
    /\ Get(v.body).financial_score \in 0..100
    /\ DOMAIN Get(v.body).breakdown = {"income_score", "expense_score", "savings_score"}

\* C30: for a user whose latest active statement has a transaction,
\* get_financial_score answers with a score between 0 and 100 and its
\* three-part breakdown and does not fail, also when no transaction of the
\* statement has a positive amount; so does get_overall_financial_score over
\* the transactions of all active statements of the user.
C30_ScoreNeverFails ==
    [][\A u \in Users : \A income_range \in IncomeRanges :
          /\ (/\ GetFinancialScore(u, income_range)
              /\ ActiveStatements(db, u) # {}
              /\ \A s \in ActiveStatements(db, u) : TransactionsOf(db, {s}) # {})
                => Scored(view')
          /\ (/\ GetOverallFinancialScore(u, income_range)
              /\ TransactionsOf(db, ActiveStatements(db, u)) # {})
                => Scored(view')]_vars

====
